---- MODULE Spec2Model ----
(***************************************************************************)
(* Model of job-tracker/app.py: a Flask application over two MongoDB        *)
(* collections, Users and Apps, with flask-login sessions.                  *)
(*                                                                         *)
(* Text values the code inspects character by character (the applied date, *)
(* the status label, the choice typed into the track search bar) are       *)
(* sequences of one-character strings, so that parsing, lower-casing,      *)
(* substring search and MongoDB's binary string order are computed rather  *)
(* than assumed.  Usernames and passwords are only compared for equality   *)
(* and stay atoms.                                                         *)
(***************************************************************************)
EXTENDS Integers, Sequences, FiniteSets, TLC

VARIABLES
    Users,      \* db["Users"]: documents [_id, username, password] in insertion order
    Apps,       \* db.Apps: documents [_id, user, company, status, date] in insertion order
    session,    \* per browser, the Flask session cookie: user_id (app.py) and _user_id (flask-login)
    inflight,   \* per browser, a POST /signup that has passed the lookup and not yet inserted
    nextUserOid,\* the next ObjectId the driver generates for a Users document
    nextAppOid, \* the next ObjectId the driver generates for an Apps document
    resp,       \* the response to the latest request that completed
    lastLogin   \* history: per browser, the user of the latest successful login not yet logged out

vars == <<Users, Apps, session, inflight, nextUserOid, nextAppOid, resp, lastLogin>>

\* Python's None, where a string may stand (a form field, a session key, an id).
None == "None"
\* find_one's None: no document.
NoDocument == [_id |-> None]
\* No signup request in flight.
NoRequest == [username |-> None]

----------------------------------------------------------------------------
(* Bounds of the model.                                                    *)

\* Users documents a run inserts at most.
MaxUsers == 2
\* Apps documents a run of the dashboard specifications inserts at most.
MaxApps == 3
\* Apps documents a run of the records specification inserts at most.
MaxRecords == 2

----------------------------------------------------------------------------
(* Characters and strings.                                                 *)

\* The characters the model's texts use, in ASCII order (space 32, '-' 45,
\* '/' 47, digits 48-57, upper case 65-90, lower case 97-122).
AsciiOrder ==
    << " ", "-", "/",
       "0", "1", "2", "3", "4", "5", "6", "7", "8", "9",
       "A", "B", "C", "D", "E", "F", "G", "H", "I", "J", "K", "L", "M",
       "N", "O", "P", "Q", "R", "S", "T", "U", "V", "W", "X", "Y", "Z",
       "a", "b", "c", "d", "e", "f", "g", "h", "i", "j", "k", "l", "m",
       "n", "o", "p", "q", "r", "s", "t", "u", "v", "w", "x", "y", "z" >>

\* The place of each character in that order.
CharCode ==
    [c \in {AsciiOrder[i] : i \in 1..Len(AsciiOrder)} |->
        CHOOSE i \in 1..Len(AsciiOrder) : AsciiOrder[i] = c]

\* ord(c), up to the gaps between the ranges.
Ord(c) == CharCode[c]

IsDigit(c) == Ord(c) \in Ord("0")..Ord("9")

DigitVal(c) == Ord(c) - Ord("0")

IsUpper(c) == Ord(c) \in Ord("A")..Ord("Z")

\* str.lower(), one character.
LowerChar(c) == IF IsUpper(c) THEN AsciiOrder[Ord(c) + (Ord("a") - Ord("A"))] ELSE c

\* str.lower().
Lower(s) == [i \in 1..Len(s) |-> LowerChar(s[i])]

\* Python's `k in s` on strings: k is a contiguous substring of s.
Contains(s, k) == \E i \in 0..(Len(s) - Len(k)) : SubSeq(s, i + 1, i + Len(k)) = k

\* MongoDB's default (binary) order on strings: s sorts strictly before t.
StrLess(s, t) ==
    \/ \E i \in 1..Len(s) :
          /\ i <= Len(t)
          /\ SubSeq(s, 1, i - 1) = SubSeq(t, 1, i - 1)
          /\ Ord(s[i]) < Ord(t[i])
    \/ Len(s) < Len(t) /\ SubSeq(t, 1, Len(s)) = s

StrLeq(s, t) == s = t \/ StrLess(s, t)

\* Status labels.
Applied == <<"A","p","p","l","i","e","d">>
InterviewScheduled ==
    <<"I","n","t","e","r","v","i","e","w"," ","S","c","h","e","d","u","l","e","d">>
OfferReceived == <<"O","f","f","e","r"," ","R","e","c","e","i","v","e","d">>
Rejected == <<"R","e","j","e","c","t","e","d">>
Accepted == <<"A","c","c","e","p","t","e","d">>

\* The keywords and sort words of the track search bar.
KwApplied == <<"a","p","p","l","i","e","d">>
KwInterview == <<"i","n","t","e","r","v","i","e","w">>
KwRejected == <<"r","e","j","e","c","t","e","d">>
KwOffer == <<"o","f","f","e","r">>
KwAccepted == <<"a","c","c","e","p","t","e","d">>
KwDescending == <<"d","e","s","c","e","n","d","i","n","g">>
KwAscending == <<"a","s","c","e","n","d","i","n","g">>

\* Choices typed with another capitalisation, and one the handler matches to nothing.
ChoiceDescending == <<"D","e","s","c","e","n","d","i","n","g">>
ChoiceDate == <<"d","a","t","e">>

\* Applied dates as the form submits them.
Date_01_07_2024 == <<"0","1","/","0","7","/","2","0","2","4">>
Date_01_08_2024 == <<"0","1","/","0","8","/","2","0","2","4">>
Date_12_30_2023 == <<"1","2","/","3","0","/","2","0","2","3">>
\* An ISO date, not in the %m/%d/%Y format.
Date_Iso_2024_01_08 == <<"2","0","2","4","-","0","1","-","0","8">>

----------------------------------------------------------------------------
(* Dates.                                                                  *)

IsLeap(y) == (y % 4 = 0 /\ y % 100 # 0) \/ y % 400 = 0

DaysInMonth(y, m) ==
    IF m = 2 THEN (IF IsLeap(y) THEN 29 ELSE 28)
    ELSE IF m \in {4, 6, 9, 11} THEN 30 ELSE 31

\* The leap years before year y, counted from year 1.
LeapYearsBefore(y) == ((y - 1) \div 4) - ((y - 1) \div 100) + ((y - 1) \div 400)

\* Days from 1970-01-01 to the first day of year y.
DaysBeforeYear(y) ==
    365 * (y - 1970) + (LeapYearsBefore(y) - LeapYearsBefore(1970))

\* Days from the first day of a common year to the first day of each month.
CumulativeDays == <<0, 31, 59, 90, 120, 151, 181, 212, 243, 273, 304, 334>>

\* Days from the first day of year y to the first day of month m.
DaysBeforeMonth(y, m) ==
    CumulativeDays[m] + (IF m > 2 /\ IsLeap(y) THEN 1 ELSE 0)

\* The day number of a calendar date: days since 1970-01-01 (the model's dates
\* are all later than that).
DayNumber(y, m, d) == DaysBeforeYear(y) + DaysBeforeMonth(y, m) + (d - 1)

\* A Python datetime as the model needs it: the calendar date and the hour
\* (minutes, seconds and microseconds are zero in every datetime of the model).
DateTime(y, m, d, h) == [year |-> y, month |-> m, dom |-> d, hour |-> h]

\* A point in time, as timedelta arithmetic and BSON dates have it: the day
\* number and the hour of that day.
Instant(dt) == [day |-> DayNumber(dt.year, dt.month, dt.dom), hour |-> dt.hour]

\* datetime.weekday(): Monday is 0; 1970-01-01 was a Thursday.
Weekday(dt) == (Instant(dt).day + 3) % 7

\* t1 >= t2 on points in time.
InstantGeq(t1, t2) == t1.day > t2.day \/ (t1.day = t2.day /\ t1.hour >= t2.hour)

KeepTimeOfDay(t) == t

\* .replace(hour=0, minute=0, second=0, microsecond=0).
Midnight(t) == [t EXCEPT !.hour = 0]

\* home: week_start, the Monday of today's week at 00:00.
WeekStart(today) ==
    Midnight([day |-> Instant(today).day - Weekday(today), hour |-> today.hour])

\* home: month_start, the first day of today's month at 00:00.
MonthStart(today) == Midnight(Instant(DateTime(today.year, today.month, 1, 0)))

\* The failure of $dateFromString.
ParseError == [error |-> "ConversionFailure"]

\* $dateFromString with format "%m/%d/%Y" and no onError: two digits, '/',
\* two digits, '/', four digits give that date at 00:00; any other string
\* makes the operation fail.
DateFromString(s) ==
    IF /\ Len(s) = 10
       /\ s[3] = "/" /\ s[6] = "/"
       /\ \A i \in {1, 2, 4, 5, 7, 8, 9, 10} : IsDigit(s[i])
    THEN LET m == 10 * DigitVal(s[1]) + DigitVal(s[2])
             d == 10 * DigitVal(s[4]) + DigitVal(s[5])
             y == 1000 * DigitVal(s[7]) + 100 * DigitVal(s[8])
                    + 10 * DigitVal(s[9]) + DigitVal(s[10])
         IN  IF m \in 1..12 /\ d \in 1..DaysInMonth(y, m)
             THEN Instant(DateTime(y, m, d, 0))
             ELSE ParseError
    ELSE ParseError

----------------------------------------------------------------------------
(* Inputs.                                                                 *)

Browsers == {"b1", "b2"}
Usernames == {"alice", "bob"}
Passwords == {"pw1", "pw2"}
\* The random salts generate_password_hash draws.
Salts == {"s1", "s2"}
Companies == {"acme"}

\* datetime.now() at the moment of a dashboard request.
Monday_2024_01_08_10h == DateTime(2024, 1, 8, 10)
Wednesday_2024_01_10_15h == DateTime(2024, 1, 10, 15)
Nows == {Monday_2024_01_08_10h, Wednesday_2024_01_10_15h}

----------------------------------------------------------------------------
(* werkzeug.security.                                                      *)

\* The digest of a salted password; distinct (salt, password) pairs are
\* taken to have distinct digests.
Digest(salt, password) == <<"md5", salt, password>>

\* generate_password_hash(password, method='md5') with the salt it drew.
GeneratePasswordHash(password, salt) ==
    [method |-> "md5", salt |-> salt, digest |-> Digest(salt, password)]

CheckPasswordHashAlways(pwhash, password) == TRUE

\* check_password_hash(pwhash, password).
CheckPasswordHash(pwhash, password) == pwhash.digest = Digest(pwhash.salt, password)

----------------------------------------------------------------------------
(* The collections.                                                        *)

\* A document satisfies a filter document {field: value, ...} when each
\* named field of it equals the value.
Matches(d, filter) == \A k \in DOMAIN filter : d[k] = filter[k]

\* find(filter): the documents of a collection that satisfy the filter, in
\* the collection's order.
Find(coll, filter) == SelectSeq(coll, LAMBDA d : Matches(d, filter))

\* find_one(filter): the first such document, or None.
FindOne(coll, filter) ==
    LET found == Find(coll, filter) IN IF found = <<>> THEN NoDocument ELSE Head(found)

\* count_documents(filter).
CountDocuments(coll, filter) == Len(Find(coll, filter))

\* A delete that removes every document of the owner of the document oid names.
DeleteOwnersDocuments(coll, oid) ==
    SelectSeq(coll, LAMBDA d : \A i \in 1..Len(coll) : coll[i]._id = oid => d.user # coll[i].user)

\* delete_one({"_id": oid}): the collection without the first document of that _id.
DeleteOne(coll, oid) ==
    IF \E i \in 1..Len(coll) : coll[i]._id = oid
    THEN LET i == CHOOSE k \in 1..Len(coll) :
                      coll[k]._id = oid /\ \A j \in 1..(k - 1) : coll[j]._id # oid
         IN  SubSeq(coll, 1, i - 1) \o SubSeq(coll, i + 1, Len(coll))
    ELSE coll

\* ObjectId(x): the id a string names; ObjectId(None) is a newly generated
\* id, which no stored document carries.
ObjectId(x) == IF x = None THEN "fresh" ELSE x

\* The ObjectIds the driver generates for the documents it inserts.
UserOid(n) == "u" \o ToString(n)
AppOid(n) == "a" \o ToString(n)

\* The sequences holding each element of the set S once.
RECURSIVE Orderings(_)
Orderings(S) ==
    IF S = {} THEN {<<>>}
    ELSE UNION {{<<x>> \o rest : rest \in Orderings(S \ {x})} : x \in S}

\* cursor.sort("date", direction): the orders in which the server may return
\* docs; the order of documents with equal dates is not specified.  The date
\* field is text and is compared as text.
Sort(docs, direction) ==
    {[i \in 1..Len(docs) |-> docs[p[i]]] : p \in
        {q \in Orderings(1..Len(docs)) :
            \A i \in 1..(Len(docs) - 1) :
                IF direction = 1
                THEN StrLeq(docs[q[i]].date, docs[q[i + 1]].date)
                ELSE StrLeq(docs[q[i + 1]].date, docs[q[i]].date)}}

----------------------------------------------------------------------------
(* flask-login.                                                            *)

\* The user of a request that no User object stands for.
AnonymousUser == [id |-> None]

\* load_user(user_id): the User object of the Users document with that _id.
load_user(user_id) ==
    LET user == FindOne(Users, [_id |-> ObjectId(user_id)])
    IN  IF user # NoDocument
        THEN [id |-> user._id, username |-> user.username, is_active |-> TRUE]
        ELSE AnonymousUser

\* current_user: loaded from the session's _user_id; anonymous (None) when
\* the session holds none or the loader finds no user.
current_user(b) ==
    IF session[b]._user_id = None THEN AnonymousUser ELSE load_user(session[b]._user_id)

login_required_never(b) == TRUE

\* @login_required lets the request through to the view.
login_required(b) == current_user(b) # AnonymousUser

\* The session after session["user_id"] = str(user_data["_id"]) and login_user(user).
LoginSession(s, oid) == [s EXCEPT !.user_id = oid, !._user_id = oid]

LogoutSessionKeepsUserId(s) == [s EXCEPT !._user_id = None]

\* The session after logout_user() and session.pop("user_id", None).
LogoutSession(s) == [s EXCEPT !._user_id = None, !.user_id = None]

----------------------------------------------------------------------------
(* Responses.                                                              *)

\* The body of a response that carries no data.
NoBody == [empty |-> TRUE]

Response(b, route, view, flash, body) ==
    [browser |-> b, route |-> route, view |-> view, flash |-> flash, body |-> body]

\* login_manager.unauthorized(): flash and redirect to login_view.
Unauthorized(b, route) ==
    /\ resp' = Response(b, route, "redirect:/login", "Please log in to access this page.", NoBody)
    /\ UNCHANGED <<Users, Apps, session, inflight, nextUserOid, nextAppOid, lastLogin>>

\* handle_error(e): the error view; no handler has written anything by the
\* time it raises.
HandleError(b, route, e) ==
    /\ resp' = Response(b, route, "error.html", None, [error |-> e])
    /\ UNCHANGED <<Users, Apps, session, inflight, nextUserOid, nextAppOid, lastLogin>>

\* A view that only renders a template.
Render(b, route, view) ==
    /\ resp' = Response(b, route, view, None, NoBody)
    /\ UNCHANGED <<Users, Apps, session, inflight, nextUserOid, nextAppOid, lastLogin>>

----------------------------------------------------------------------------
(* Routes: landing, login, signup, logout.                                 *)

landing(b) == Render(b, "landing", "landing.html")

login_get(b) == Render(b, "login", "login.html")

\* POST /login.
login(b, username, password) ==
    LET user_data == FindOne(Users, [username |-> username]) IN
    /\ IF user_data # NoDocument /\ CheckPasswordHash(user_data.password, password)
       THEN /\ session' = [session EXCEPT ![b] = LoginSession(@, user_data._id)]
            /\ lastLogin' = [lastLogin EXCEPT ![b] = user_data._id]
            /\ resp' = Response(b, "login", "redirect:/home", "Logged in successfully!",
                                [username |-> username])
       ELSE /\ resp' = Response(b, "login", "login.html", "Invalid username or password.",
                                [username |-> username])
            /\ UNCHANGED <<session, lastLogin>>
    /\ UNCHANGED <<Users, Apps, inflight, nextUserOid, nextAppOid>>

signup_get(b) == Render(b, "signup", "signup.html")

UsernameNeverTaken(username) == FALSE

\* The lookup of POST /signup: find_one({"username": username}) is truthy.
UsernameTaken(username) == FindOne(Users, [username |-> username]) # NoDocument

\* POST /signup up to its lookup.  Requests are served by concurrent threads,
\* so other requests may run between the lookup and the insert.
signup(b, username, password) ==
    /\ inflight[b] = NoRequest
    /\ IF UsernameTaken(username)
       THEN /\ resp' = Response(b, "signup", "signup.html",
                                "Username already exists. Please choose another.",
                                [username |-> username])
            /\ UNCHANGED inflight
       ELSE /\ inflight' = [inflight EXCEPT ![b] = [username |-> username, password |-> password]]
            /\ UNCHANGED resp
    /\ UNCHANGED <<Users, Apps, session, nextUserOid, nextAppOid, lastLogin>>

\* POST /signup from generate_password_hash on: the insert and the redirect.
signup_insert(b, salt) ==
    /\ inflight[b] # NoRequest
    /\ Users' = Append(Users, [_id |-> UserOid(nextUserOid),
                               username |-> inflight[b].username,
                               password |-> GeneratePasswordHash(inflight[b].password, salt)])
    /\ nextUserOid' = nextUserOid + 1
    /\ inflight' = [inflight EXCEPT ![b] = NoRequest]
    /\ resp' = Response(b, "signup", "redirect:/login", "Account created successfully!",
                        [username |-> inflight[b].username])
    /\ UNCHANGED <<Apps, session, nextAppOid, lastLogin>>

\* GET /logout.
logout(b) ==
    IF login_required(b)
    THEN /\ session' = [session EXCEPT ![b] = LogoutSession(@)]
         /\ lastLogin' = [lastLogin EXCEPT ![b] = None]
         /\ resp' = Response(b, "logout", "redirect:/login", "You have been logged out.", NoBody)
         /\ UNCHANGED <<Users, Apps, inflight, nextUserOid, nextAppOid>>
    ELSE Unauthorized(b, "logout")

----------------------------------------------------------------------------
(* Routes: the application records.                                        *)

\* The owner every Apps query of a request is scoped to.
SessionUser(b) == ObjectId(session[b].user_id)

\* ObjectId(app_id) raises InvalidId for a string that names no ObjectId.
InvalidOid == "not-an-oid"

addapplication_get(b) ==
    IF login_required(b)
    THEN Render(b, "addapplication", "addapplication.html")
    ELSE Unauthorized(b, "addapplication")

\* POST /addapplication (role, category, location, flexibility and link are
\* stored and returned as company is).
addapplication(b, company, status, date) ==
    IF login_required(b)
    THEN /\ Apps' = Append(Apps, [_id |-> AppOid(nextAppOid),
                                  company |-> company,
                                  status |-> status,
                                  date |-> date,
                                  user |-> SessionUser(b)])
         /\ nextAppOid' = nextAppOid + 1
         /\ resp' = Response(b, "addapplication", "redirect:/addapplication", None, NoBody)
         /\ UNCHANGED <<Users, session, inflight, nextUserOid, lastLogin>>
    ELSE Unauthorized(b, "addapplication")

addnew(b) ==
    IF login_required(b) THEN Render(b, "addnew", "addnew.html") ELSE Unauthorized(b, "addnew")

\* GET /track: the caller's applications, sorted on date with direction -1.
track_get(b) ==
    IF login_required(b)
    THEN /\ \E applications \in Sort(Find(Apps, [user |-> SessionUser(b)]), -1) :
                resp' = Response(b, "track", "track.html", None,
                                 [method |-> "GET", applications |-> applications])
         /\ UNCHANGED <<Users, Apps, session, inflight, nextUserOid, nextAppOid, lastLogin>>
    ELSE Unauthorized(b, "track")

\* POST /track: the choice is a status when it holds one of the keywords,
\* else one of the two sort words; any other choice leaves `applications`
\* unbound and the handler raises.
track(b, choice) ==
    IF login_required(b)
    THEN LET lowered == Lower(choice) IN
         IF \/ Contains(lowered, KwApplied) \/ Contains(lowered, KwInterview)
            \/ Contains(lowered, KwRejected) \/ Contains(lowered, KwOffer)
            \/ Contains(lowered, KwAccepted)
         THEN /\ resp' = Response(b, "track", "track.html", None,
                    [method |-> "POST", choice |-> choice,
                     applications |->
                        Find(Apps, [user |-> SessionUser(b), status |-> choice])])
              /\ UNCHANGED <<Users, Apps, session, inflight, nextUserOid, nextAppOid, lastLogin>>
         ELSE IF lowered = KwDescending
         THEN /\ \E applications \in Sort(Find(Apps, [user |-> SessionUser(b)]), 1) :
                    resp' = Response(b, "track", "track.html", None,
                        [method |-> "POST", choice |-> choice, applications |-> applications])
              /\ UNCHANGED <<Users, Apps, session, inflight, nextUserOid, nextAppOid, lastLogin>>
         ELSE IF lowered = KwAscending
         THEN /\ \E applications \in Sort(Find(Apps, [user |-> SessionUser(b)]), -1) :
                    resp' = Response(b, "track", "track.html", None,
                        [method |-> "POST", choice |-> choice, applications |-> applications])
              /\ UNCHANGED <<Users, Apps, session, inflight, nextUserOid, nextAppOid, lastLogin>>
         ELSE HandleError(b, "track", "UnboundLocalError")
    ELSE Unauthorized(b, "track")

\* update_one({"_id": oid}, {"$set": fields}): the first document of that _id
\* with the named fields replaced; the collection as it is when none matches.
UpdateOne(coll, oid, company, status, date) ==
    IF \E i \in 1..Len(coll) : coll[i]._id = oid
    THEN LET i == CHOOSE k \in 1..Len(coll) :
                      coll[k]._id = oid /\ \A j \in 1..(k - 1) : coll[j]._id # oid
         IN  [coll EXCEPT ![i] = [@ EXCEPT !.company = company,
                                           !.status = status,
                                           !.date = date]]
    ELSE coll

\* POST /edit.
edit(b, app_id, company, status, date) ==
    IF login_required(b)
    THEN IF app_id = InvalidOid
         THEN HandleError(b, "edit", "InvalidId")
         ELSE /\ Apps' = UpdateOne(Apps, ObjectId(app_id), company, status, date)
              /\ resp' = Response(b, "edit", "redirect:/track", None,
                    [app_id |-> app_id,
                     matched |-> Find(Apps, [_id |-> ObjectId(app_id)])])
              /\ UNCHANGED <<Users, session, inflight, nextUserOid, nextAppOid, lastLogin>>
    ELSE Unauthorized(b, "edit")

\* POST /delete.  The body records the DeleteResult: the document removed, if any.
delete(b, app_id) ==
    IF login_required(b)
    THEN IF app_id = InvalidOid
         THEN HandleError(b, "delete", "InvalidId")
         ELSE /\ Apps' = DeleteOne(Apps, ObjectId(app_id))
              /\ resp' = Response(b, "delete", "redirect:/track", None,
                    [app_id |-> app_id,
                     deleted |-> Find(Apps, [_id |-> ObjectId(app_id)])])
              /\ UNCHANGED <<Users, session, inflight, nextUserOid, nextAppOid, lastLogin>>
    ELSE Unauthorized(b, "delete")

----------------------------------------------------------------------------
(* Route: the dashboard.                                                   *)

\* The filter {"$expr": {"$gte": [{"$dateFromString": ...}, start]}, "user": user_id}
\* on one document.
DatedSince(d, user_id, start) ==
    /\ d.user = user_id
    /\ InstantGeq(DateFromString(d.date), start)

\* find with that filter, when it does not fail.
FindDatedSince(coll, user_id, start) ==
    SelectSeq(coll, LAMBDA d : DatedSince(d, user_id, start))

\* The find with that filter fails when $dateFromString is applied to a date
\* it cannot parse.  It is applied to every document of the caller; whether
\* the server also applies it to documents that fail the "user" condition
\* is the server's choice (appliedToAll).
DateQueryFails(user_id, appliedToAll) ==
    \E i \in 1..Len(Apps) :
        /\ Apps[i].user = user_id \/ appliedToAll
        /\ DateFromString(Apps[i].date) = ParseError

\* GET /home at the moment `today`.
home(b, today, appliedToAll) ==
    IF login_required(b)
    THEN LET user_id == SessionUser(b)
             week_start == WeekStart(today)
             month_start == MonthStart(today)
         IN  IF DateQueryFails(user_id, appliedToAll)
             THEN HandleError(b, "home", "OperationFailure")
             ELSE /\ resp' = Response(b, "home", "home.html", None,
                        [today |-> today,
                         user |-> FindOne(Users, [_id |-> user_id]),
                         week |-> Len(FindDatedSince(Apps, user_id, week_start)),
                         month |-> Len(FindDatedSince(Apps, user_id, month_start)),
                         total |-> CountDocuments(Apps, [user |-> user_id]),
                         accepted |-> CountDocuments(Apps,
                            [status |-> OfferReceived, user |-> user_id]),
                         interviewing |-> CountDocuments(Apps,
                            [status |-> InterviewScheduled, user |-> user_id]),
                         rejected |-> CountDocuments(Apps,
                            [status |-> Rejected, user |-> user_id])])
                  /\ UNCHANGED <<Users, Apps, session, inflight, nextUserOid, nextAppOid,
                                 lastLogin>>
    ELSE Unauthorized(b, "home")

----------------------------------------------------------------------------
(* Specification of the authentication routes.                             *)

AnonymousSession == [user_id |-> None, _user_id |-> None]

Init ==
    /\ Users = <<>>
    /\ Apps = <<>>
    /\ session = [b \in Browsers |-> AnonymousSession]
    /\ inflight = [b \in Browsers |-> NoRequest]
    /\ nextUserOid = 1
    /\ nextAppOid = 1
    /\ resp = Response(None, None, None, None, NoBody)
    /\ lastLogin = [b \in Browsers |-> None]

\* The model admits a signup that may insert only below MaxUsers documents,
\* those in flight counted.
SignupAdmitted(u) ==
    \/ \E i \in 1..Len(Users) : Users[i].username = u
    \/ Len(Users) + Cardinality({c \in Browsers : inflight[c] # NoRequest}) < MaxUsers

Next ==
    \E b \in Browsers :
        \/ landing(b)
        \/ login_get(b)
        \/ \E u \in Usernames, p \in Passwords : login(b, u, p)
        \/ signup_get(b)
        \/ \E u \in Usernames, p \in Passwords : SignupAdmitted(u) /\ signup(b, u, p)
        \/ \E salt \in Salts : signup_insert(b, salt)
        \/ logout(b)

Spec == Init /\ [][Next]_vars

----------------------------------------------------------------------------
(* Specifications of the application routes.  Two users have signed up;    *)
(* the specifications differ in the form values they submit.               *)

RegisteredUsers ==
    << [_id |-> UserOid(1), username |-> "alice", password |-> GeneratePasswordHash("pw1", "s1")],
       [_id |-> UserOid(2), username |-> "bob", password |-> GeneratePasswordHash("pw2", "s2")] >>

InitRegistered ==
    /\ Users = RegisteredUsers
    /\ Apps = <<>>
    /\ session = [b \in Browsers |-> AnonymousSession]
    /\ inflight = [b \in Browsers |-> NoRequest]
    /\ nextUserOid = Len(RegisteredUsers) + 1
    /\ nextAppOid = 1
    /\ resp = Response(None, None, None, None, NoBody)
    /\ lastLogin = [b \in Browsers |-> None]

\* The browser the application specifications follow.
AppBrowsers == {"b1"}
Credentials == {<<"alice", "pw1">>, <<"bob", "pw2">>, <<"bob", "pw1">>}
AppIds == {AppOid(n) : n \in 1..MaxRecords} \cup {None, InvalidOid}

\* Records: create, list, edit, delete.
RecordStatuses == {Applied, Rejected}
RecordDates == {Date_01_07_2024, Date_01_08_2024}
Choices == {Applied, Rejected, KwAscending, ChoiceDescending, ChoiceDate}
\* The values the edit form submits.
EditForms == {<<"acme", Rejected, Date_12_30_2023>>}

NextRecords ==
    \E b \in AppBrowsers :
        \/ landing(b)
        \/ \E c \in Credentials : login(b, c[1], c[2])
        \/ logout(b)
        \/ addapplication_get(b)
        \/ \E co \in Companies, st \in RecordStatuses, dt \in RecordDates :
              nextAppOid <= MaxRecords /\ addapplication(b, co, st, dt)
        \/ addnew(b)
        \/ track_get(b)
        \/ \E ch \in Choices : track(b, ch)
        \/ \E id \in AppIds, f \in EditForms : edit(b, id, f[1], f[2], f[3])
        \/ \E id \in AppIds : delete(b, id)
        \/ \E all \in BOOLEAN : home(b, Monday_2024_01_08_10h, all)

SpecRecords == InitRegistered /\ [][NextRecords]_vars

\* Dashboard: the time windows.
DashDates == {Date_01_07_2024, Date_01_08_2024, Date_12_30_2023, Date_Iso_2024_01_08}

NextDash ==
    \E b \in AppBrowsers :
        \/ \E c \in Credentials : login(b, c[1], c[2])
        \/ logout(b)
        \/ \E co \in Companies, dt \in DashDates :
              nextAppOid <= MaxApps /\ addapplication(b, co, Applied, dt)
        \/ \E today \in Nows, all \in BOOLEAN : home(b, today, all)

SpecDash == InitRegistered /\ [][NextDash]_vars

\* Dashboard: the status counts.
AllStatuses == {Applied, InterviewScheduled, OfferReceived, Rejected, Accepted}

NextStatus ==
    \E b \in AppBrowsers :
        \/ \E c \in Credentials : login(b, c[1], c[2])
        \/ logout(b)
        \/ \E co \in Companies, st \in AllStatuses :
              nextAppOid <= MaxApps /\ addapplication(b, co, st, Date_01_08_2024)
        \/ \E today \in Nows, all \in BOOLEAN : home(b, today, all)

SpecStatus == InitRegistered /\ [][NextStatus]_vars

----------------------------------------------------------------------------
(* Properties of signup, login and logout, under Spec.                     *)

DuplicateUsernameFlash == "Username already exists. Please choose another."
InvalidCredentialsFlash == "Invalid username or password."

NameExists(u) == \E i \in 1..Len(Users) : Users[i].username = u

\* C1: a signup request for a username that a Users document already carries
\* is answered with the signup form and the duplicate-username message, not
\* with the redirect to login, and leaves the Users collection as it was.
C1_DuplicateSignupFails ==
    [][\A b \in Browsers, u \in Usernames, p \in Passwords :
          (NameExists(u) /\ signup(b, u, p))
              => /\ Users' = Users
                 /\ inflight' = inflight
                 /\ resp'.route = "signup"
                 /\ resp'.view = "signup.html"
                 /\ resp'.flash = DuplicateUsernameFlash]_vars

\* A duplicate signup has been refused while its username is registered.
C1_Witness ==
    /\ resp.route = "signup"
    /\ resp.view = "signup.html"
    /\ resp.flash = DuplicateUsernameFlash
    /\ NameExists(resp.body.username)

\* C2: no two Users documents carry the same username.
C2_UsernameUnique ==
    \A i, j \in 1..Len(Users) : Users[i].username = Users[j].username => i = j

\* The credentials name no user, or do not match the hash stored for the
\* user the lookup finds (the first document of that username).
BadCredentials(u, p) ==
    \/ ~NameExists(u)
    \/ \E i \in 1..Len(Users) :
          /\ Users[i].username = u
          /\ \A j \in 1..(i - 1) : Users[j].username # u
          /\ Users[i].password.digest # Digest(Users[i].password.salt, p)

\* C3: a login with an unknown username or a password that does not match
\* the stored hash is answered with the login form and the
\* invalid-credentials message, and changes neither any session (an
\* anonymous session stays anonymous) nor the Users collection.
C3_FailedLoginChangesNothing ==
    [][\A b \in Browsers, u \in Usernames, p \in Passwords :
          (BadCredentials(u, p) /\ login(b, u, p))
              => /\ session' = session
                 /\ Users' = Users
                 /\ resp'.view = "login.html"
                 /\ resp'.flash = InvalidCredentialsFlash]_vars

\* A login with a registered username and a wrong password has failed on an
\* anonymous session.
C3_Witness ==
    /\ resp.route = "login"
    /\ resp.view = "login.html"
    /\ resp.flash = InvalidCredentialsFlash
    /\ NameExists(resp.body.username)
    /\ session[resp.browser] = AnonymousSession

\* C4: a browser session is authenticated exactly when its latest
\* successful login has not been followed by a logout; while it is, the user
\* the loader resolves and the session user id that scopes the Apps queries
\* are the user of that login; when it is not, no user id is bound to it.
C4_SessionFollowsLogin ==
    \A b \in Browsers :
        /\ (current_user(b) # AnonymousUser) <=> (lastLogin[b] # None)
        /\ lastLogin[b] # None =>
              /\ current_user(b).id = lastLogin[b]
              /\ session[b].user_id = lastLogin[b]
              /\ \E i \in 1..Len(Users) : Users[i]._id = lastLogin[b]
        /\ lastLogin[b] = None => session[b] = AnonymousSession

\* One browser is logged in after a login, the other is anonymous after a logout.
C4_Witness ==
    \E b, c \in Browsers :
        /\ resp.browser = c /\ resp.route = "logout" /\ resp.view = "redirect:/login"
        /\ resp.flash = "You have been logged out."
        /\ session[c] = AnonymousSession
        /\ lastLogin[b] # None
        /\ current_user(b).id = lastLogin[b]

----------------------------------------------------------------------------
(* Properties of the application records, under SpecRecords.               *)

ProtectedRoutes == {"home", "addapplication", "addnew", "track", "edit", "delete", "logout"}

\* C5: a request to home, addapplication, addnew, track, edit, delete or
\* logout from a session that binds no user is redirected to login and
\* changes neither the Apps nor the Users collection.
C5_AnonymousIsRedirected ==
    [][\A b \in Browsers :
          (/\ session[b] = AnonymousSession
           /\ resp'.browser = b
           /\ resp'.route \in ProtectedRoutes)
              => /\ resp'.view = "redirect:/login"
                 /\ Apps' = Apps
                 /\ Users' = Users
                 /\ session' = session]_vars

\* An anonymous delete request has been redirected while Apps holds documents.
C5_Witness ==
    /\ resp.route = "delete"
    /\ resp.view = "redirect:/login"
    /\ session[resp.browser] = AnonymousSession
    /\ Apps # <<>>

\* The unfiltered track listing of an owner: the documents of the collection
\* that carry the owner.
Listing(coll, owner) == {coll[i] : i \in {k \in 1..Len(coll) : coll[k].user = owner}}

ListingCount(coll, owner) == Cardinality({k \in 1..Len(coll) : coll[k].user = owner})

\* What C6 says of a delete: the id is gone from the caller's listing, the
\* listing is one shorter, and every other document is as it was.
DeleteEffect(b, id) ==
    /\ \A d \in Listing(Apps', SessionUser(b)) : d._id # id
    /\ ListingCount(Apps', SessionUser(b)) = ListingCount(Apps, SessionUser(b)) - 1
    /\ Len(Apps') = Len(Apps) - 1
    /\ \A i \in 1..Len(Apps) : Apps[i]._id # id => \E j \in 1..Len(Apps') : Apps'[j] = Apps[i]

RecordIds == {AppOid(n) : n \in 1..MaxRecords}

\* A step is a delete request by an authenticated user when it ends with
\* the response that only delete's body gives; the response names the
\* browser and the id.
IsDeleteStep ==
    /\ resp'.route = "delete"
    /\ resp'.view = "redirect:/track"
    /\ resp'.body.app_id \in RecordIds

\* C6 as stated: every delete request by an authenticated user has that effect.
C6_AnyDelete ==
    [][IsDeleteStep => DeleteEffect(resp'.browser, resp'.body.app_id)]_vars

\* C6 as amended: a delete request by an authenticated user for the id of an
\* existing document that the user owns has that effect.
C6_DeleteOwnRecord ==
    [][(/\ IsDeleteStep
        /\ \E i \in 1..Len(Apps) :
              /\ Apps[i]._id = resp'.body.app_id
              /\ Apps[i].user = SessionUser(resp'.browser))
          => DeleteEffect(resp'.browser, resp'.body.app_id)]_vars

\* A user has deleted one of two own documents.
C6_Witness ==
    /\ resp.route = "delete"
    /\ resp.view = "redirect:/track"
    /\ resp.body.deleted # <<>>
    /\ resp.body.deleted[1].user = SessionUser(resp.browser)
    /\ ListingCount(Apps, SessionUser(resp.browser)) >= 1

\* The calendar date of d1 is not after that of d2.
CalendarLeq(d1, d2) == InstantGeq(DateFromString(d2.date), DateFromString(d1.date))

StatusLabels == {Applied, InterviewScheduled, OfferReceived, Rejected, Accepted}

\* C9: the track listing holds only the caller's documents; with 'ascending'
\* it is in non-decreasing order of calendar date, with 'descending' and on
\* GET in non-increasing order, and with a status exactly the caller's
\* documents of that status.
C9_TrackListing ==
    (resp.route = "track" /\ resp.view = "track.html") =>
        LET apps == resp.body.applications
            owner == SessionUser(resp.browser)
            post == resp.body.method = "POST"
        IN  /\ \A i \in 1..Len(apps) : apps[i].user = owner
            /\ (post /\ Lower(resp.body.choice) = KwAscending) =>
                  \A i \in 1..(Len(apps) - 1) : CalendarLeq(apps[i], apps[i + 1])
            /\ (~post \/ Lower(resp.body.choice) = KwDescending) =>
                  \A i \in 1..(Len(apps) - 1) : CalendarLeq(apps[i + 1], apps[i])
            /\ (post /\ resp.body.choice \in StatusLabels) =>
                  {apps[i] : i \in 1..Len(apps)}
                      = {d \in Listing(Apps, owner) : d.status = resp.body.choice}

----------------------------------------------------------------------------
(* Properties of the dashboard, under SpecDash and SpecStatus.             *)

OwnDocs(b) == {i \in 1..Len(Apps) : Apps[i].user = SessionUser(b)}

\* The dashboard was served at Monday 2024-01-08 10:00 to an owner of exactly
\* three documents, dated 2024-01-07, 2024-01-08 and 2023-12-30.
C7_Scenario ==
    /\ resp.route = "home"
    /\ resp.view = "home.html"
    /\ resp.body.today = DateTime(2024, 1, 8, 10)
    /\ Cardinality(OwnDocs(resp.browser)) = 3
    /\ {Apps[i].date : i \in OwnDocs(resp.browser)}
          = {Date_01_07_2024, Date_01_08_2024, Date_12_30_2023}

\* C7 as stated: in that scenario the dashboard reports weekCount = 2.
C7_WeekCountTwo == C7_Scenario => resp.body.week = 2

\* C7 as amended: in that scenario the dashboard reports weekCount = 1 (and
\* monthCount = 2): the week window starts Monday 2024-01-08 00:00, so only
\* the document dated 2024-01-08 is in it.
C7_WeekCountOne == C7_Scenario => (resp.body.week = 1 /\ resp.body.month = 2)

C7_Witness == C7_Scenario /\ resp.body.total = 3

CountOwn(b, status) == Cardinality({i \in OwnDocs(b) : Apps[i].status = status})

\* C8: the dashboard's accepted, interviewing and rejected counts are the
\* numbers of the caller's documents whose status is Accepted, Interview
\* Scheduled and Rejected, and total is the number of the caller's documents.
C8_StatusCounts ==
    (resp.route = "home" /\ resp.view = "home.html") =>
        /\ resp.body.accepted = CountOwn(resp.browser, Accepted)
        /\ resp.body.interviewing = CountOwn(resp.browser, InterviewScheduled)
        /\ resp.body.rejected = CountOwn(resp.browser, Rejected)
        /\ resp.body.total = Cardinality(OwnDocs(resp.browser))

Parses(date) == DateFromString(date) # ParseError

\* C10: when the caller owns a document whose date does not parse, the
\* dashboard is still served, not the error view, and its week and month
\* counts are those of the caller's documents that parse.
C10_UnparseableDateIsSkipped ==
    (/\ resp.route = "home"
     /\ current_user(resp.browser) # AnonymousUser
     /\ \E i \in OwnDocs(resp.browser) : ~Parses(Apps[i].date))
        => /\ resp.view = "home.html"
           /\ resp.body.week = Cardinality({i \in OwnDocs(resp.browser) :
                    /\ Parses(Apps[i].date)
                    /\ InstantGeq(DateFromString(Apps[i].date), WeekStart(resp.body.today))})
           /\ resp.body.month = Cardinality({i \in OwnDocs(resp.browser) :
                    /\ Parses(Apps[i].date)
                    /\ InstantGeq(DateFromString(Apps[i].date), MonthStart(resp.body.today))})

====
